---- MODULE Spec2Model ----
(***************************************************************************)
(* The retrieval engine of fub_chatbot (sources/retriever.py): the build   *)
(* pipeline (loader, chunker, embedder, index, metadata), the persisted    *)
(* snapshot (index.faiss + metadata.json) and search with context-window   *)
(* expansion.                                                              *)
(*                                                                         *)
(* Strings are sequences of words: word 0 is whitespace, a word w > 0 is a *)
(* block of text.  A vector is a sequence of integers.                     *)
(***************************************************************************)
EXTENDS Integers, Sequences, FiniteSets, TLC

VARIABLES
    data_dir,     \* the input directory: the files, in glob order
    db_dir,       \* whether the output directory exists
    index_file,   \* db/index.faiss: None or the serialized index
    meta_file,    \* db/metadata.json: None or the serialized metadata
    index,        \* self.index: None or the in-memory index
    metadata,     \* self.metadata
    window_size,  \* self.window_size
    texts,        \* the text units of the last run of the build pipeline
    result,       \* outcome of the last search call
    call,         \* the last operation on the instance and its outcome
    prev_call,    \* for a load_or_build call, the operation before it
    loaded_ok     \* some load_or_build call on this instance has returned normally

vars == <<data_dir, db_dir, index_file, meta_file, index, metadata,
          window_size, texts, result, call, prev_call, loaded_ok>>

\* ------------------------------------------------------------------ bounds
TARGET_CHUNK_TOKENS == 300
DEFAULT_CHUNK_TOKENS == 300
\* longest paragraph list drawn for the chunker
MaxParas == 4
\* largest k passed to search
MaxK == 5
\* largest context-window radius given to the constructor
MaxWindow == 2

None == [none |-> TRUE]

\* ------------------------------------------------------------ strings
RECURSIVE Sum(_)
Sum(s) == IF s = <<>> THEN 0 ELSE Head(s) + Sum(Tail(s))

RECURSIVE LStrip(_)
LStrip(s) == IF s # <<>> /\ Head(s) = 0 THEN LStrip(Tail(s)) ELSE s

RECURSIVE RStrip(_)
RStrip(s) ==
    IF s # <<>> /\ s[Len(s)] = 0 THEN RStrip(SubSeq(s, 1, Len(s) - 1)) ELSE s

\* str.strip()
Strip(s) == RStrip(LStrip(s))

\* str.split(): the maximal runs of non-whitespace words
RECURSIVE Split(_)
Split(s) ==
    IF s = <<>> THEN <<>>
    ELSE IF Head(s) = 0 THEN Split(Tail(s))
    ELSE <<<<Head(s)>>>> \o Split(Tail(s))

\* " ".join(parts)
RECURSIVE Join(_)
Join(parts) ==
    IF parts = <<>> THEN <<>>
    ELSE IF Len(parts) = 1 THEN parts[1]
    ELSE parts[1] \o <<0>> \o Join(Tail(parts))

\* tokens the tokenizer makes of one word: whitespace joins the next token
TokenCost(w) ==
    CASE w = 0 -> 0
      [] w = 1 -> 100
      [] w = 2 -> 200
      [] w = 3 -> 350
      [] OTHER -> 50

\* len(enc.encode(para))
RECURSIVE EncodeLen(_)
EncodeLen(s) == IF s = <<>> THEN 0 ELSE TokenCost(Head(s)) + EncodeLen(Tail(s))

\* ------------------------------------------------------------ chunker
\* fault variant: flushes only once the running chunk is already over budget
ShouldFlush_AfterTheFact(current_tokens, para_tokens, current_chunk) ==
    current_tokens > TARGET_CHUNK_TOKENS /\ current_chunk # <<>>

\* the flush test of the token-budget loop
ShouldFlush(current_tokens, para_tokens, current_chunk) ==
    current_tokens + para_tokens > TARGET_CHUNK_TOKENS /\ current_chunk # <<>>

\* one iteration of `for para in paragraphs` in token-budget mode;
\* st = [out, current_chunk, current_tokens]
ChunkStep(name, st, raw) ==
    LET para == Strip(raw)
        para_tokens == EncodeLen(para)
    IN  IF para = <<>> THEN st
        ELSE IF ShouldFlush(st.current_tokens, para_tokens, st.current_chunk)
        THEN [out |-> Append(st.out, <<name, Strip(st.current_chunk)>>),
              current_chunk |-> para,
              current_tokens |-> para_tokens]
        ELSE [out |-> st.out,
              current_chunk |-> st.current_chunk \o <<0>> \o para,
              current_tokens |-> st.current_tokens + para_tokens]

RECURSIVE ChunkLoop(_, _, _)
ChunkLoop(name, st, paragraphs) ==
    IF paragraphs = <<>> THEN st
    ELSE ChunkLoop(name, ChunkStep(name, st, Head(paragraphs)), Tail(paragraphs))

\* one chunk per non-blank paragraph (TARGET_CHUNK_TOKENS = 0)
RECURSIVE ParagraphChunks(_, _)
ParagraphChunks(name, paragraphs) ==
    IF paragraphs = <<>> THEN <<>>
    ELSE (IF Strip(Head(paragraphs)) # <<>>
          THEN <<<<name, Strip(Head(paragraphs))>>>> ELSE <<>>)
         \o ParagraphChunks(name, Tail(paragraphs))

\* the .pdf branch of _build_index
PdfChunks(name, paragraphs) ==
    IF TARGET_CHUNK_TOKENS > 0
    THEN LET st == ChunkLoop(name,
                     [out |-> <<>>, current_chunk |-> <<>>, current_tokens |-> 0],
                     paragraphs)
         IN  IF st.current_chunk # <<>>
             THEN Append(st.out, <<name, Strip(st.current_chunk)>>)
             ELSE st.out
    ELSE ParagraphChunks(name, paragraphs)

\* _split_text: windows of chunk_size words
RECURSIVE SplitWindows(_, _, _)
SplitWindows(source, words, chunk_size) ==
    IF words = <<>> THEN <<>>
    ELSE LET m == IF Len(words) < chunk_size THEN Len(words) ELSE chunk_size
         IN  <<<<source, Join(SubSeq(words, 1, m))>>>>
             \o SplitWindows(source, SubSeq(words, m + 1, Len(words)), chunk_size)

SplitText(text, source) ==
    SplitWindows(source, Split(text),
                 IF TARGET_CHUNK_TOKENS > 0 THEN TARGET_CHUNK_TOKENS
                 ELSE DEFAULT_CHUNK_TOKENS)

\* file.stem as a word: distinct from every word of a document
Stem(name) == 10 + name

\* the text units one file contributes
FileTexts(file) ==
    CASE file.suffix = ".pdf" -> PdfChunks(file.name, file.body)
      [] file.suffix \in {".md", ".txt"} ->
            LET chunks == SplitText(file.body, file.name)
            IN  [i \in 1..Len(chunks) |->
                    <<file.name, <<Stem(file.name)>> \o <<0>> \o chunks[i][2]>>]
      [] OTHER -> <<>>

\* the loop over data_dir.glob("*")
RECURSIVE LoadTexts(_)
LoadTexts(dir) ==
    IF dir = <<>> THEN <<>> ELSE FileTexts(Head(dir)) \o LoadTexts(Tail(dir))

\* fault variant: the build goes on with no text unit
EmptyCorpus_Never(t) == FALSE

\* the test `if not texts` that aborts the build
EmptyCorpus(t) == t = <<>>

\* ------------------------------------------------- embedder and index
\* SentenceTransformer.encode of one string: a fixed function of the text
Embed(text) == <<Sum(text), Len(text)>>

\* model.encode(list of strings)
Encode(strings) == [i \in 1..Len(strings) |-> Embed(strings[i])]

\* faiss.IndexFlatL2(dim) followed by index.add(embeddings)
IndexFlatL2Add(dim, embeddings) ==
    [d |-> dim, ntotal |-> Len(embeddings), xb |-> embeddings]

\* lines 130-133: the index a build makes of the text units
BuildIndexObj(t) ==
    LET embeddings == Encode([i \in 1..Len(t) |-> t[i][2]])
        dim == IF embeddings = <<>> THEN 0 ELSE Len(embeddings[1])
    IN  IndexFlatL2Add(dim, embeddings)

\* fault variant: the last text unit gets no metadata entry
BuildMetadata_DropLast(t) ==
    [i \in 1..(Len(t) - 1) |-> [source |-> t[i][1], text |-> t[i][2]]]

\* line 134: one {"source", "text"} entry per text unit
BuildMetadata(t) ==
    [i \in 1..Len(t) |-> [source |-> t[i][1], text |-> t[i][2]]]

\* squared Euclidean distance
RECURSIVE Dist(_, _)
Dist(u, v) ==
    IF u = <<>> THEN 0
    ELSE (Head(u) - Head(v)) * (Head(u) - Head(v)) + Dist(Tail(u), Tail(v))

\* the orders in which an exact search can list the m nearest of the
\* positions cand: ascending distance, equal distances in either order
RECURSIVE Nearest(_, _, _, _)
Nearest(xb, qv, cand, m) ==
    IF m = 0 \/ cand = {} THEN {<<>>}
    ELSE UNION { { <<p>> \o r : r \in Nearest(xb, qv, cand \ {p}, m - 1) } :
                 p \in { c \in cand : \A o \in cand :
                            Dist(xb[c + 1], qv) <= Dist(xb[o + 1], qv) } }

\* index.search(query_vec, k): the labels row, padded with -1
IndexSearch(ix, qv, k) ==
    { h \o [j \in 1..(k - Len(h)) |-> -1] :
        h \in Nearest(ix.xb, qv, 0..(ix.ntotal - 1), k) }

\* ------------------------------------------------------ persistence
RECURSIVE Flatten(_)
Flatten(vs) == IF vs = <<>> THEN <<>> ELSE Head(vs) \o Flatten(Tail(vs))

\* faiss.write_index: header and the vectors as one flat array
WriteIndex(ix) == [d |-> ix.d, ntotal |-> ix.ntotal, codes |-> Flatten(ix.xb)]

\* fault variant: the last vector is not read back
ReadIndex_OffByOne(f) ==
    [d |-> f.d, ntotal |-> f.ntotal - 1,
     xb |-> [i \in 1..(f.ntotal - 1) |-> SubSeq(f.codes, (i - 1) * f.d + 1, i * f.d)]]

\* faiss.read_index
ReadIndex(f) ==
    [d |-> f.d, ntotal |-> f.ntotal,
     xb |-> [i \in 1..f.ntotal |-> SubSeq(f.codes, (i - 1) * f.d + 1, i * f.d)]]

\* json.dumps(metadata): an array of objects, each a list of key/value pairs
JsonDumps(md) ==
    [i \in 1..Len(md) |-> << <<"source", md[i].source>>, <<"text", md[i].text>> >>]

\* the value of `key` in a parsed object
Field(obj, key) == obj[CHOOSE j \in 1..Len(obj) : obj[j][1] = key][2]

\* json.loads(meta_path.read_text())
JsonLoads(doc) ==
    [i \in 1..Len(doc) |->
        [source |-> Field(doc[i], "source"), text |-> Field(doc[i], "text")]]

\* ------------------------------------------------------------ search
\* range(a, b) as a list
Range(a, b) == [j \in 1..(b - a) |-> a + j - 1]

Max(a, b) == IF a > b THEN a ELSE b
Min(a, b) == IF a < b THEN a ELSE b

\* sorted(set(xs))
RECURSIVE SortedSet(_)
SortedSet(S) ==
    IF S = {} THEN <<>>
    ELSE LET m == CHOOSE x \in S : \A y \in S : x <= y
         IN  <<m>> \o SortedSet(S \ {m})

\* lines 159-161: the ranges around the labels, concatenated
RECURSIVE Extend(_, _, _)
Extend(sel, w, n) ==
    IF sel = <<>> THEN <<>>
    ELSE Range(Max(0, Head(sel) - w), Min(n, Head(sel) + w + 1))
         \o Extend(Tail(sel), w, n)

\* fault variant: the expanded positions are neither deduplicated nor sorted
Expand_Unsorted(sel, w, n) ==
    IF w > 0 THEN Extend(sel, w, n) ELSE sel

\* lines 156-162: selected_indices before the final comprehension
Expand(sel, w, n) ==
    IF w > 0
    THEN LET expanded_indices == Extend(sel, w, n)
         IN  SortedSet({expanded_indices[j] : j \in 1..Len(expanded_indices)})
    ELSE sel

\* whether list[i] raises IndexError
OutOfRange(md, i) == i >= Len(md) \/ i < -Len(md)

\* list[i], negative i counting from the end
PyIndex(md, i) == IF i >= 0 THEN md[i + 1] ELSE md[Len(md) + i + 1]

\* fault variant: the sentinel is not filtered
Keep_All(i) == TRUE

\* `if i != -1` of the final comprehension
Keep(i) == i # -1

\* line 164: the texts at the selected positions
RECURSIVE SelectTexts(_, _)
SelectTexts(md, sel) ==
    IF sel = <<>> THEN [status |-> "ok", texts |-> <<>>]
    ELSE IF ~Keep(Head(sel)) THEN SelectTexts(md, Tail(sel))
    ELSE IF OutOfRange(md, Head(sel)) THEN [status |-> "IndexError", texts |-> <<>>]
    ELSE LET rest == SelectTexts(md, Tail(sel))
         IN  IF rest.status # "ok" THEN rest
             ELSE [status |-> "ok",
                   texts |-> <<PyIndex(md, Head(sel)).text>> \o rest.texts]

\* ------------------------------------------------------ input directories
PngFile == [name |-> 1, suffix |-> ".png", body |-> <<>>]
BlankPdf == [name |-> 2, suffix |-> ".pdf", body |-> << <<>>, <<0>> >>]
EmptyTxt == [name |-> 5, suffix |-> ".txt", body |-> <<0>>]
ShortPdf == [name |-> 2, suffix |-> ".pdf",
             body |-> << <<1>>, <<0, 2>>, <<0>>, <<3, 0>> >>]
NotesTxt == [name |-> 3, suffix |-> ".txt", body |-> <<1, 0, 0, 2>>]
LongPdf == [name |-> 4, suffix |-> ".pdf",
            body |-> << <<2>>, <<2>>, <<1>>, <<>>, <<3>>, <<1>> >>]

\* the directory contents the retriever is run against
Corpora ==
    { <<>>, <<PngFile>>, <<BlankPdf, PngFile, EmptyTxt>>,
      <<PngFile, ShortPdf>>, <<NotesTxt, LongPdf>> }

\* the query strings
Queries == { <<2>>, <<2, 0, 1>> }

\* paragraphs of a structured document, as extract_text + split give them
ParaPool == { <<>>, <<0>>, <<1>>, <<2>>, <<0, 3>>, <<1, 0, 1>> }

ParaSeqs == UNION { [1..n -> ParaPool] : n \in 0..MaxParas }

\* where a load_or_build call can raise an I/O error
FaultPoints == {"read_index", "read_meta", "encode", "write_index", "write_meta"}

NoResult == [status |-> "", texts |-> <<>>, q |-> <<>>, k |-> 0, hits |-> <<>>]
NoCall == [op |-> "init", force |-> FALSE, path |-> "", outcome |-> ""]

\* ------------------------------------------------------------ actions
\* Retriever.__init__ in a process started on an empty output directory
Init ==
    /\ data_dir \in Corpora
    /\ db_dir = FALSE
    /\ index_file = None
    /\ meta_file = None
    /\ index = None
    /\ metadata = <<>>
    /\ window_size \in 0..MaxWindow
    /\ texts = <<>>
    /\ result = NoResult
    /\ call = NoCall
    /\ prev_call = NoCall
    /\ loaded_ok = FALSE

\* the bookkeeping of a finished load_or_build call
Finish(force, path, outcome) ==
    /\ call' = [op |-> "load_or_build", force |-> force, path |-> path,
                outcome |-> outcome]
    /\ prev_call' = call
    /\ loaded_ok' = (loaded_ok \/ outcome = "ok")
    /\ result' = NoResult
    /\ UNCHANGED <<data_dir, window_size>>

\* load_or_build(force_rebuild) raising at fault point `at`, or running to
\* its end when at = "none"
Run(force, at) ==
    /\ db_dir' = TRUE
    /\ IF ~force /\ index_file # None /\ meta_file # None
       THEN /\ at \in {"none", "read_index", "read_meta"}
            /\ index' = IF at = "read_index" THEN index ELSE ReadIndex(index_file)
            /\ metadata' = IF at = "none" THEN JsonLoads(meta_file) ELSE metadata
            /\ UNCHANGED <<index_file, meta_file, texts>>
            /\ Finish(force, "load", IF at = "none" THEN "ok" ELSE "IOError")
       ELSE LET t == LoadTexts(data_dir)
            IN  /\ texts' = t
                /\ IF EmptyCorpus(t)
                   THEN /\ at = "none"
                        /\ UNCHANGED <<index, metadata, index_file, meta_file>>
                        /\ Finish(force, "build", "ValueError")
                   ELSE /\ at \in {"none", "encode", "write_index", "write_meta"}
                        /\ index' = IF at = "encode" THEN index ELSE BuildIndexObj(t)
                        /\ metadata' = IF at = "encode" THEN metadata
                                       ELSE BuildMetadata(t)
                        /\ index_file' = IF at \in {"none", "write_meta"}
                                         THEN WriteIndex(BuildIndexObj(t))
                                         ELSE index_file
                        /\ meta_file' = IF at = "none"
                                        THEN JsonDumps(BuildMetadata(t))
                                        ELSE meta_file
                        /\ Finish(force, "build",
                                  IF at = "none" THEN "ok" ELSE "IOError")

\* load_or_build with no I/O error (the empty-corpus error included)
LoadOrBuild ==
    \E force \in BOOLEAN :
        /\ Run(force, "none")
        /\ call'.outcome \in {"ok", "ValueError"}

\* load_or_build stopped by an I/O error
LoadOrBuildFault ==
    \E force \in BOOLEAN, at \in FaultPoints :
        /\ Run(force, at)
        /\ call'.outcome = "IOError"

\* search(query, k)
Search ==
    \E q \in Queries, k \in 1..MaxK :
        /\ IF index = None
           THEN result' = [status |-> "NotLoaded", texts |-> <<>>, q |-> q,
                           k |-> k, hits |-> <<>>]
           ELSE \E hits \in IndexSearch(index, Embed(q), k) :
                    LET r == SelectTexts(metadata,
                                         Expand(hits, window_size, Len(metadata)))
                    IN  result' = [status |-> r.status, texts |-> r.texts,
                                   q |-> q, k |-> k, hits |-> hits]
        /\ call' = [op |-> "search", force |-> FALSE, path |-> "", outcome |-> ""]
        /\ prev_call' = NoCall
        /\ UNCHANGED <<data_dir, db_dir, index_file, meta_file, index, metadata,
                       window_size, texts, loaded_ok>>

\* the process ends and a new one constructs a Retriever
Restart ==
    /\ index' = None
    /\ metadata' = <<>>
    /\ window_size' \in 0..MaxWindow
    /\ texts' = <<>>
    /\ result' = NoResult
    /\ call' = NoCall
    /\ prev_call' = NoCall
    /\ loaded_ok' = FALSE
    /\ UNCHANGED <<data_dir, db_dir, index_file, meta_file>>

\* the operator replaces the documents of the input directory
ChangeData ==
    \E c \in Corpora \ {data_dir} :
        /\ data_dir' = c
        /\ call' = [op |-> "change_data", force |-> FALSE, path |-> "",
                    outcome |-> ""]
        /\ prev_call' = NoCall
        /\ result' = NoResult
        /\ UNCHANGED <<db_dir, index_file, meta_file, index, metadata,
                       window_size, texts, loaded_ok>>

Next == LoadOrBuild \/ Search \/ Restart \/ ChangeData

\* every run in which no I/O operation fails
Spec == Init /\ [][Next]_vars

NextFault == LoadOrBuild \/ LoadOrBuildFault \/ Search \/ Restart \/ ChangeData

\* the runs in which reads, writes and the embedder may raise
SpecFault == Init /\ [][NextFault]_vars

\* the chunker alone, on every paragraph list up to MaxParas
InitChunk ==
    /\ data_dir \in { <<[name |-> 2, suffix |-> ".pdf", body |-> ps]>> :
                        ps \in ParaSeqs }
    /\ db_dir = FALSE
    /\ index_file = None
    /\ meta_file = None
    /\ index = None
    /\ metadata = <<>>
    /\ window_size = 0
    /\ texts = <<>>
    /\ result = NoResult
    /\ call = NoCall
    /\ prev_call = NoCall
    /\ loaded_ok = FALSE

\* the loader and chunker pass of _build_index (lines 55-124)
Chunk ==
    /\ call.op = "init"
    /\ texts' = LoadTexts(data_dir)
    /\ call' = [op |-> "chunk", force |-> FALSE, path |-> "", outcome |-> ""]
    /\ prev_call' = NoCall
    /\ UNCHANGED <<data_dir, db_dir, index_file, meta_file, index, metadata,
                   window_size, result, loaded_ok>>

NextChunk == Chunk

SpecChunk == InitChunk /\ [][NextChunk]_vars

\* ------------------------------------------------------------ properties
\* the stripped non-blank paragraphs of a paragraph list, in order
RECURSIVE NonBlank(_)
NonBlank(paragraphs) ==
    IF paragraphs = <<>> THEN <<>>
    ELSE (IF Strip(Head(paragraphs)) = <<>> THEN <<>>
          ELSE <<Strip(Head(paragraphs))>>)
         \o NonBlank(Tail(paragraphs))

\* the j-th smallest element of a set of integers
Nth(S, j) == CHOOSE p \in S : Cardinality({u \in S : u < p}) = j - 1

\* C1: whenever the instance is loaded, the metadata has as many entries as
\* the index holds vectors, and the vector at position i is the embedding of
\* the chunk text at metadata entry i.
C1_MetadataAlignedWithIndex ==
    index # None =>
        /\ Len(metadata) = index.ntotal
        /\ Len(index.xb) = index.ntotal
        /\ \A i \in 1..Len(metadata) : index.xb[i] = Embed(metadata[i].text)

\* a loaded five-chunk index that was read back from a snapshot
C1_Witness ==
    /\ index # None
    /\ call.op = "load_or_build" /\ call.path = "load" /\ call.outcome = "ok"
    /\ Len(metadata) = 5

\* C2: a search made while no load_or_build call on the instance has
\* returned normally fails with the not-loaded error and returns no text.
C2_SearchBeforeSuccessFails ==
    (call.op = "search" /\ ~loaded_ok) =>
        (result.status = "NotLoaded" /\ result.texts = <<>>)

\* C3: load_or_build takes the load branch exactly when force_rebuild is
\* false and both artifacts exist, and the load branch writes nothing and
\* runs no build; on the build branch an instance becomes loaded only once
\* both artifacts of that build are persisted.
C3_LoadIffSnapshotElseBuildThenLoaded ==
    [][call'.op = "load_or_build" =>
        /\ (call'.path = "load") <=>
               (~call'.force /\ index_file # None /\ meta_file # None)
        /\ call'.path = "load" =>
               (index_file' = index_file /\ meta_file' = meta_file /\ texts' = texts)
        /\ (call'.path = "build" /\ index = None /\ index' # None) =>
               /\ index_file' = WriteIndex(index')
               /\ meta_file' = JsonDumps(metadata')]_vars

\* C4: a build that finds no text unit raises the empty-corpus error and
\* changes neither artifact nor the in-memory index and metadata.
C4_EmptyCorpusChangesNothing ==
    [][(call'.op = "load_or_build" /\ call'.path = "build" /\ texts' = <<>>) =>
        /\ call'.outcome = "ValueError"
        /\ index' = index /\ metadata' = metadata
        /\ index_file' = index_file /\ meta_file' = meta_file]_vars

\* a forced rebuild over an existing snapshot raised the empty-corpus error
\* on a loaded instance
C4_Witness ==
    /\ call.op = "load_or_build" /\ call.force /\ call.outcome = "ValueError"
    /\ index # None /\ index_file # None /\ meta_file # None
    /\ texts = <<>>

\* C5: load_or_build(force_rebuild=False) on two artifacts of different
\* sizes does not return normally.
C5_MismatchedSnapshotRaises ==
    (/\ call.op = "load_or_build" /\ call.path = "load"
     /\ index_file.ntotal # Len(meta_file)) => call.outcome # "ok"

\* C6: with radius w > 0 a search on a loaded instance holding n chunks
\* (n vectors, n metadata entries) returns the texts at the positions within
\* w of a real hit, clipped to the stored positions, in ascending position
\* order without duplicates; -1 adds no position.
C6_WindowIsSortedUnionOfRanges ==
    (/\ call.op = "search" /\ index # None /\ window_size > 0
     /\ index.ntotal = Len(metadata)) =>
        LET n == Len(metadata)
            U == { p \in 0..(n - 1) :
                     \E j \in 1..Len(result.hits) :
                        /\ result.hits[j] # -1
                        /\ p >= result.hits[j] - window_size
                        /\ p <= result.hits[j] + window_size }
        IN  /\ result.status = "ok"
            /\ Len(result.texts) = Cardinality(U)
            /\ \A j \in 1..Cardinality(U) :
                    result.texts[j] = metadata[Nth(U, j) + 1].text

\* a search with w > 0 whose labels row holds a sentinel
C6_Witness ==
    /\ call.op = "search" /\ window_size > 0 /\ result.status = "ok"
    /\ \E j \in 1..Len(result.hits) : result.hits[j] = -1
    /\ Len(result.texts) = Len(metadata)

\* C7: with radius 0 a search on a loaded instance holding n chunks
\* (n vectors, n metadata entries) returns min(k, n) texts, those of the
\* real hits in the order the index lists them (ascending distance); the -1
\* slots yield nothing.
C7_RelevanceOrderSentinelsDropped ==
    (/\ call.op = "search" /\ index # None /\ window_size = 0
     /\ index.ntotal = Len(metadata)) =>
        LET n == Len(metadata)
            m == IF result.k < n THEN result.k ELSE n
            h == result.hits
        IN  /\ result.status = "ok"
            /\ Len(result.texts) = m
            /\ \A j \in 1..m :
                    /\ h[j] \in 0..(n - 1)
                    /\ result.texts[j] = metadata[h[j] + 1].text
            /\ \A j \in (m + 1)..result.k : h[j] = -1
            /\ \A j \in 1..(m - 1) :
                    Dist(index.xb[h[j] + 1], Embed(result.q))
                        <= Dist(index.xb[h[j + 1] + 1], Embed(result.q))

\* k = 5 against two chunks, the nearer one stored second
C7_Witness ==
    /\ call.op = "search" /\ window_size = 0 /\ result.status = "ok"
    /\ result.k = 5 /\ Len(metadata) = 2 /\ Len(result.texts) = 2
    /\ result.hits[1] > result.hits[2]

\* C8: a load_or_build(force_rebuild=False) call that directly follows
\* another one leaves index, metadata and both artifacts as the first left
\* them.
C8_SecondLoadChangesNothing ==
    [][(/\ call.op = "load_or_build" /\ ~call.force
        /\ call'.op = "load_or_build" /\ ~call'.force) =>
        /\ index' = index /\ metadata' = metadata
        /\ index_file' = index_file /\ meta_file' = meta_file]_vars

\* the first call built and persisted, the second loaded the snapshot
C8_Witness ==
    /\ call.op = "load_or_build" /\ ~call.force /\ call.path = "load"
    /\ prev_call.op = "load_or_build" /\ ~prev_call.force
    /\ prev_call.path = "build" /\ prev_call.outcome = "ok"
    /\ index # None /\ index.ntotal = 5

\* C9: the chunks of a document are its non-blank paragraphs cut into
\* consecutive groups, each joined by single spaces; a group of several
\* paragraphs has at most TARGET_CHUNK_TOKENS tokens, and no group has more
\* than TARGET_CHUNK_TOKENS plus the tokens of the paragraph that opened it.
C9_ChunksPartitionWithinBudget ==
    call.op = "chunk" =>
        LET P == NonBlank(data_dir[1].body)
        IN  \E S \in SUBSET (1..(Len(P) - 1)) :
                LET g == IF P = <<>> THEN 0 ELSE Cardinality(S) + 1
                    lo(c) == IF c = 1 THEN 1 ELSE Nth(S, c - 1) + 1
                    hi(c) == IF c = g THEN Len(P) ELSE Nth(S, c)
                    tok(c) == Sum([i \in 1..(hi(c) - lo(c) + 1) |->
                                      EncodeLen(P[lo(c) + i - 1])])
                IN  /\ Len(texts) = g
                    /\ \A c \in 1..g :
                          /\ texts[c][1] = data_dir[1].name
                          /\ texts[c][2] = Join(SubSeq(P, lo(c), hi(c)))
                          /\ tok(c) <= TARGET_CHUNK_TOKENS \/ lo(c) = hi(c)
                          /\ tok(c) <= TARGET_CHUNK_TOKENS + EncodeLen(P[lo(c)])

\* a document with a blank paragraph, a merged chunk and a chunk that is one
\* paragraph over the budget
C9_Witness ==
    /\ call.op = "chunk"
    /\ Len(NonBlank(data_dir[1].body)) < Len(data_dir[1].body)
    /\ Len(texts) < Len(NonBlank(data_dir[1].body))
    /\ \E c \in 1..Len(texts) : EncodeLen(texts[c][2]) > TARGET_CHUNK_TOKENS

\* C10: whenever both artifacts exist they hold the same number of entries
\* and the vector at each position is the embedding of the text there.
C10_ArtifactsFromOneBuild ==
    (index_file # None /\ meta_file # None) =>
        /\ index_file.ntotal = Len(meta_file)
        /\ \A i \in 1..Len(meta_file) :
                ReadIndex(index_file).xb[i] = Embed(JsonLoads(meta_file)[i].text)

====
